---- MODULE Spec2Model ----
(***************************************************************************)
(* writeWAVE(fname, data) of writing_a_wav_file.py as a state machine.     *)
(*                                                                         *)
(* The state is the file system (what each path holds), the caller's view  *)
(* of the current call (arguments, position, result) and the Wave_write    *)
(* object the call holds in its local variable `file`.  One action per     *)
(* statement of the function: wave.open (line 4), file.setparams (lines    *)
(* 11-12), file.writeframes (line 13), file.close (line 14).  `wave` is    *)
(* the Python standard library's module; the steps below follow what its   *)
(* Wave_write does for the calls the function makes.  The file holds no    *)
(* import of it: the name is taken as bound by the program that holds the  *)
(* function (unbound, line 4 would raise NameError on every call).         *)
(***************************************************************************)
EXTENDS Integers, Sequences, FiniteSets, TLC

VARIABLES
    fs,        \* path -> [exists, bytes]: the file system
    pc,        \* position of the call: idle, open, setparams, writeframes, close, done
    fname,     \* argument: the path
    data,      \* argument: the sample buffer, a sequence of bytes
    file,      \* the local variable `file`: the Wave_write object
    handle,    \* the OS file handle wave.open obtained: none, open, closed
    result,    \* what the caller observes: [kind, exc]
    raised,    \* the exception the failing library call raised (NoExc if none)
    trace,     \* the library calls made by this call, in order
    declared,  \* the tuple handed to setparams (<<>> before the call)
    passed,    \* the buffers handed to writeframes, in order
    before     \* what fname held when the call started

vars == <<fs, pc, fname, data, file, handle, result, raised, trace, declared, passed, before>>

\* ------------------------------------------------------------- bounds
MaxLen == 2

Byte == {0, 1}

RECURSIVE SeqsUpTo(_)
SeqsUpTo(n) ==
    IF n = 0 THEN {<<>>}
    ELSE LET S == SeqsUpTo(n - 1)
         IN  S \cup {Append(s, b) : s \in {t \in S : Len(t) = n - 1}, b \in Byte}

Buffers == SeqsUpTo(MaxLen)

\* ------------------------------------------------------------- environment
WritablePaths == {"a.wav", "b.wav"}
UnwritablePaths == {"ro.wav", "/missing/x.wav"}
Paths == WritablePaths \cup UnwritablePaths

Writable(p) == p \in WritablePaths

\* ------------------------------------------------------------- the function's constants
nChannels == 1
sampleWidth == 2
frameRate == 44100
nFrames == 44100

ParamsStereo == <<2, sampleWidth, frameRate, nFrames, "NONE", "noncompressed">>
ParamsActualFrames ==
    <<nChannels, sampleWidth, frameRate, Len(data) \div sampleWidth, "NONE", "noncompressed">>
Params == <<nChannels, sampleWidth, frameRate, nFrames, "NONE", "noncompressed">>

\* ------------------------------------------------------------- files
\* A file is a sequence of items: the RIFF/WAVE header the encoder writes
\* (one item, carrying the fields the header stores) and the payload bytes.
Absent == [exists |-> FALSE, bytes |-> <<>>]
Holding(items) == [exists |-> TRUE, bytes |-> items]

HeaderItem(nch, sw, rate, datalen) ==
    [format |-> "PCM", nchannels |-> nch, sampwidth |-> sw, framerate |-> rate,
     datalen |-> datalen]

ByteItems(d) == [i \in 1..Len(d) |-> [byte |-> d[i]]]

IsHeader(it) == DOMAIN it = {"format", "nchannels", "sampwidth", "framerate", "datalen"}

Prefixes(d) == {SubSeq(d, 1, k) : k \in 0..Len(d)}

\* The header of a file (its first item) and the payload (what follows it).
HasHeader(f) == f.exists /\ Len(f.bytes) >= 1 /\ IsHeader(f.bytes[1])
HeaderOf(f) == f.bytes[1]
PayloadOf(f) == SubSeq(f.bytes, 2, Len(f.bytes))

\* ------------------------------------------------------------- results
NoExc == [type |-> "none", step |-> "none"]
Exc(type, step) == [type |-> type, step |-> step]

NoResult == [kind |-> "none", exc |-> NoExc]
Returned == [kind |-> "ok", exc |-> NoExc]

\* writeWAVE has no try/except: an exception of a library call leaves the
\* function as it was raised.
Swallowed(e) == Returned
Wrapped(e) == [kind |-> "error", exc |-> Exc("RuntimeError", e.step)]
Unhandled(e) == [kind |-> "error", exc |-> e]

\* The statement that follows each statement of the function body.
FollowingFramesFirst(step) ==
    CASE step = "open" -> "writeframes"
      [] step = "writeframes" -> "setparams"
      [] step = "setparams" -> "close"
      [] step = "close" -> "done"
Following(step) ==
    CASE step = "open" -> "setparams"
      [] step = "setparams" -> "writeframes"
      [] step = "writeframes" -> "close"
      [] step = "close" -> "done"

\* ------------------------------------------------------------- Wave_write
NoWriter ==
    [nchannels |-> 0, sampwidth |-> 0, framerate |-> 0, nframes |-> 0,
     comptype |-> "", compname |-> "", datawritten |-> 0, datalength |-> 0,
     headerwritten |-> FALSE, hdrpos |-> 0]

\* builtins.open(fname, 'wb'): the file is created, or truncated to nothing.
OpenAppend(old) == old
OpenMode(old) == <<>>

\* setparams accepts the tuple when nothing was written yet and every field
\* is one the encoder supports.
ParamsAccepted(w, p) ==
    /\ w.datawritten = 0
    /\ p[1] >= 1
    /\ p[2] \in 1..4
    /\ p[3] >= 1
    /\ p[5] = "NONE"

\* The header can be written once the channel count, the sample width and the
\* frame rate are set.
HeaderReady(w) == w.nchannels # 0 /\ w.sampwidth # 0 /\ w.framerate # 0

\* The argument of file.writeframes: the buffer the caller gave, as it is.
WholeFramesOnly(d) == SubSeq(d, 1, Len(d) - (Len(d) % sampleWidth))
WriteframesArg(d) == d

\* What a call that fails while writing can leave in the file: nothing, or
\* the header as first written (declaring nframes frames) and some prefix of
\* the buffer.
InitialLength(w) == w.nframes * w.nchannels * w.sampwidth
FirstHeader(w) == HeaderItem(w.nchannels, w.sampwidth, w.framerate, InitialLength(w))
PartialWrites(w, start, d) ==
    {start} \cup {start \o <<FirstHeader(w)>> \o ByteItems(p) : p \in Prefixes(d)}

\* The header is patched in place once the length written differs from the
\* length it declares.
NotPatched(items, pos, w, written) == items
Patched(items, pos, w, written) ==
    IF w.datalength = written THEN items
    ELSE [items EXCEPT ![pos] = HeaderItem(w.nchannels, w.sampwidth, w.framerate, written)]

\* ------------------------------------------------------------- the call
\* A file some other program left: a stereo 8-bit recording of one frame.
Foreign == Holding(<<HeaderItem(2, 1, 8000, 2)>> \o ByteItems(<<1, 0>>))

Init ==
    /\ fs \in {[p \in Paths |-> IF p = "ro.wav" THEN f ELSE IF p = "b.wav" THEN g ELSE Absent] :
                 f \in {Absent, Foreign}, g \in {Absent, Foreign}}
    /\ pc = "idle"
    /\ fname = "a.wav"
    /\ data = <<>>
    /\ file = NoWriter
    /\ handle = "none"
    /\ result = NoResult
    /\ raised = NoExc
    /\ trace = <<>>
    /\ declared = <<>>
    /\ passed = <<>>
    /\ before = Absent

\* The caller invokes writeWAVE(fname, data).
Call ==
    /\ pc \in {"idle", "done"}
    /\ \E p \in Paths, d \in Buffers :
         /\ fname' = p
         /\ data' = d
         /\ before' = fs[p]
    /\ pc' = "open"
    /\ file' = NoWriter
    /\ handle' = "none"
    /\ result' = NoResult
    /\ raised' = NoExc
    /\ trace' = <<>>
    /\ declared' = <<>>
    /\ passed' = <<>>
    /\ UNCHANGED fs

Fail(e) ==
    /\ raised' = e
    /\ result' = Unhandled(e)
    /\ pc' = "done"

\* file = wave.open(fname, 'wb')
Open ==
    /\ pc = "open"
    /\ trace' = Append(trace, "open")
    /\ IF Writable(fname)
       THEN /\ fs' = [fs EXCEPT ![fname] = Holding(OpenMode(fs[fname].bytes))]
            /\ handle' = "open"
            /\ file' = NoWriter
            /\ pc' = Following("open")
            /\ UNCHANGED <<result, raised>>
       ELSE /\ Fail(Exc("OSError", "open"))
            /\ UNCHANGED <<fs, handle, file>>
    /\ UNCHANGED <<fname, data, declared, passed, before>>

\* file.setparams((nChannels, sampleWidth, frameRate, nFrames, 'NONE', 'noncompressed'))
Setparams ==
    /\ pc = "setparams"
    /\ trace' = Append(trace, "setparams")
    /\ declared' = Params
    /\ IF ParamsAccepted(file, Params)
       THEN /\ file' = [file EXCEPT !.nchannels = Params[1],
                                    !.sampwidth = Params[2],
                                    !.framerate = Params[3],
                                    !.nframes = Params[4],
                                    !.comptype = Params[5],
                                    !.compname = Params[6]]
            /\ pc' = Following("setparams")
            /\ UNCHANGED <<result, raised>>
       ELSE /\ Fail(Exc("wave.Error", "setparams"))
            /\ UNCHANGED file
    /\ UNCHANGED <<fs, fname, data, handle, passed, before>>

\* file.writeframes(data): the header is written first (declaring nframes
\* frames), then the buffer, then the header is patched to the length written.
\* The platform may fail any of the writes (a full disk).
Writeframes ==
    /\ pc = "writeframes"
    /\ trace' = Append(trace, "writeframes")
    /\ passed' = Append(passed, WriteframesArg(data))
    /\ LET d == WriteframesArg(data)
           start == fs[fname].bytes
           pos == Len(start) + 1
           whole == start \o <<FirstHeader(file)>> \o ByteItems(d)
           written == file.datawritten + Len(d)
           w1 == [file EXCEPT !.headerwritten = TRUE, !.hdrpos = pos,
                              !.datalength = InitialLength(file)]
       IN  IF ~HeaderReady(file)
           THEN /\ Fail(Exc("wave.Error", "writeframes"))
                /\ UNCHANGED <<fs, file>>
           ELSE \/ /\ fs' = [fs EXCEPT ![fname] = Holding(Patched(whole, pos, w1, written))]
                   /\ file' = [w1 EXCEPT !.datawritten = written, !.datalength = written]
                   /\ pc' = Following("writeframes")
                   /\ UNCHANGED <<result, raised>>
                \/ /\ \E left \in PartialWrites(file, start, d) :
                         fs' = [fs EXCEPT ![fname] = Holding(left)]
                   /\ Fail(Exc("OSError", "writeframes"))
                   /\ UNCHANGED file
    /\ UNCHANGED <<fname, data, handle, declared, before>>

\* file.close(): the header is written if it was not yet and patched if the
\* length it declares is not the length written, the buffered bytes are
\* flushed and, whether or not that succeeds, the handle is released.
Close ==
    /\ pc = "close"
    /\ trace' = Append(trace, "close")
    /\ handle' = "closed"
    /\ LET cur == fs[fname].bytes
           start == IF file.headerwritten THEN SubSeq(cur, 1, file.hdrpos - 1) ELSE cur
           pos == IF file.headerwritten THEN file.hdrpos ELSE Len(cur) + 1
           w1 == IF file.headerwritten THEN file
                 ELSE [file EXCEPT !.headerwritten = TRUE, !.hdrpos = pos,
                                   !.datalength = InitialLength(file)]
           whole == IF file.headerwritten THEN cur ELSE cur \o <<FirstHeader(file)>>
       IN  IF ~file.headerwritten /\ ~HeaderReady(file)
           THEN /\ Fail(Exc("wave.Error", "close"))
                /\ UNCHANGED <<fs, file>>
           ELSE \/ /\ fs' = [fs EXCEPT ![fname] =
                                 Holding(Patched(whole, pos, w1, file.datawritten))]
                   /\ file' = [w1 EXCEPT !.datalength = file.datawritten]
                   /\ pc' = Following("close")
                   /\ result' = Returned
                   /\ UNCHANGED raised
                \/ /\ \E left \in PartialWrites(file, start, WriteframesArg(data))
                                     \cup {Patched(whole, pos, w1, file.datawritten)} :
                         fs' = [fs EXCEPT ![fname] = Holding(left)]
                   /\ Fail(Exc("OSError", "close"))
                   /\ UNCHANGED file
    /\ UNCHANGED <<fname, data, declared, passed, before>>

Next == Call \/ Open \/ Setparams \/ Writeframes \/ Close

Spec == Init /\ [][Next]_vars

TypeOK ==
    /\ pc \in {"idle", "open", "setparams", "writeframes", "close", "done"}
    /\ fname \in Paths
    /\ data \in Buffers
    /\ handle \in {"none", "open", "closed"}
    /\ result.kind \in {"none", "ok", "error"}

\* ------------------------------------------------------------- properties
Finished == pc = "done"
Succeeded == pc = "done" /\ result.kind = "ok"
Failed == pc = "done" /\ result.kind = "error"
AllSteps == <<"open", "setparams", "writeframes", "close">>

\* C1: after writeWAVE returns, the file at fname has a header declaring
\* 1 channel, a 2-byte sample width and a 44100 Hz frame rate, whatever the
\* path and the buffer.
C1_HeaderFixed ==
    Succeeded =>
        /\ HasHeader(fs[fname])
        /\ HeaderOf(fs[fname]).nchannels = 1
        /\ HeaderOf(fs[fname]).sampwidth = 2
        /\ HeaderOf(fs[fname]).framerate = 44100

C1_Witness ==
    /\ Succeeded
    /\ fname = "b.wav"
    /\ before = Foreign
    /\ Len(data) = 1
    /\ HeaderOf(fs[fname]).nchannels = 1

\* C2: after writeWAVE returns, the payload of the file is as long as the
\* buffer, and the header declares that length: nothing is padded, truncated
\* or dropped, for the empty buffer and for a buffer of an odd length too.
C2_PayloadLength ==
    Succeeded =>
        /\ Len(PayloadOf(fs[fname])) = Len(data)
        /\ HeaderOf(fs[fname]).datalen = Len(data)

C2_Witness ==
    /\ Succeeded
    /\ Len(data) = 1
    /\ Len(PayloadOf(fs[fname])) = 1

\* C3: a successful call leaves at fname exactly the file that call alone
\* produces, whatever the path held before: the header and the last buffer,
\* never the earlier content followed by the new.
C3_Overwrites ==
    Succeeded =>
        fs[fname] = Holding(<<HeaderItem(1, 2, 44100, Len(data))>> \o ByteItems(data))

C3_Witness ==
    /\ Succeeded
    /\ HasHeader(before)
    /\ HeaderOf(before).nchannels = 1
    /\ Len(PayloadOf(before)) = 2
    /\ Len(data) = 1
    /\ PayloadOf(fs[fname]) = ByteItems(data)

\* C4: a call on an unwritable path ends in an error raised by the open step:
\* it never returns normally, no frame is handed to the encoder and the path
\* holds what it held before.
C4_UnwritableFails ==
    (pc # "idle" /\ ~Writable(fname)) =>
        /\ result.kind # "ok"
        /\ passed = <<>>
        /\ fs[fname] = before
        /\ handle = "none"
        /\ Finished => (result.kind = "error" /\ result.exc.step = "open")

C4_Witness ==
    /\ Failed
    /\ fname = "ro.wav"
    /\ fs[fname] = Foreign
    /\ result.exc = Exc("OSError", "open")

\* C5: the exception of a failing library call reaches the caller as it was
\* raised, the failing call is the last one made, and the call returns
\* normally only when all four calls were made and none raised.
C5_Propagates ==
    /\ (raised # NoExc) =>
          /\ Failed
          /\ result.exc = raised
          /\ trace # <<>>
          /\ trace[Len(trace)] = raised.step
    /\ (result.kind = "error") => (raised # NoExc)
    /\ (result.kind = "ok") => (raised = NoExc /\ trace = AllSteps /\ pc = "done")
    /\ Finished => (result.kind \in {"ok", "error"})

C5_Witness ==
    /\ Failed
    /\ raised = Exc("OSError", "writeframes")
    /\ result.exc = raised
    /\ trace = <<"open", "setparams", "writeframes">>

\* C6: in every state reached after writeWAVE has finished, normally or with
\* an error, the handle it opened is closed.
C6_HandleReleased ==
    (Finished /\ handle # "none") => handle = "closed"

\* C7: the tuple handed to setparams is (1, 2, 44100, 44100, 'NONE',
\* 'noncompressed') for every path and buffer, and the encoder holds these
\* values from then on: the declared frame count is 44100 whatever the number
\* of frames in the buffer.
C7_DeclaredParams ==
    (declared # <<>>) =>
        /\ declared = <<1, 2, 44100, 44100, "NONE", "noncompressed">>
        /\ file.nchannels = 1
        /\ file.sampwidth = 2
        /\ file.framerate = 44100
        /\ file.nframes = 44100
        /\ file.comptype = "NONE"

C7_Witness ==
    /\ Succeeded
    /\ declared[4] = 44100
    /\ Len(data) \div 2 = 1
    /\ fname = "b.wav"

\* C8: the buffer reaches writeframes as the caller gave it, whatever its
\* length, and every error of a call is one a library call raised: writeWAVE
\* rejects no buffer itself.
C8_NoValidation ==
    /\ (passed # <<>>) => (passed = <<data>>)
    /\ (pc \in {"close", "done"} /\ "writeframes" \in {trace[i] : i \in 1..Len(trace)})
          => (passed = <<data>>)
    /\ (result.kind = "error") =>
          (result.exc.step \in {"open", "writeframes", "close"} /\ result.exc.type = "OSError")

C8_Witness ==
    /\ Succeeded
    /\ Len(data) % 2 = 1
    /\ passed = <<data>>
    /\ Len(PayloadOf(fs[fname])) % 2 = 1

\* C9: the library calls of one execution are a prefix of open, setparams,
\* writeframes, close: each at most once and in that order, the parameters
\* set before the one writeframes call, the handle closed only after it.
C9_StepOrder ==
    /\ Len(trace) <= 4
    /\ trace = SubSeq(AllSteps, 1, Len(trace))
    /\ Len(passed) <= 1
    /\ (passed # <<>>) => (declared # <<>>)
    /\ (handle = "closed") => (Len(passed) = 1 /\ trace = AllSteps)

C9_Witness ==
    /\ Succeeded
    /\ trace = AllSteps
    /\ Len(passed) = 1
    /\ handle = "closed"

\* C10: once the open step succeeded the earlier content is gone: a call that
\* fails after it leaves only what that call itself wrote (nothing, or the
\* header and a part of the buffer), so an earlier file that is not such a
\* leftover is not there any more; after a failed open the path holds what it
\* held before.
LeftBy(d) ==
    {<<>>}
    \cup {<<HeaderItem(1, 2, 44100, 88200)>> \o ByteItems(p) : p \in Prefixes(d)}
    \cup {<<HeaderItem(1, 2, 44100, Len(d))>> \o ByteItems(d)}

C10_NoRollback ==
    /\ (pc \in {"setparams", "writeframes"}) => (fs[fname] = Holding(<<>>))
    /\ (Failed /\ result.exc.step # "open") =>
          /\ fs[fname].exists
          /\ fs[fname].bytes \in LeftBy(data)
          /\ (before.bytes \notin LeftBy(data)) => (fs[fname] # before)
    /\ (Failed /\ result.exc.step = "open") => (fs[fname] = before)

C10_Witness ==
    /\ Failed
    /\ result.exc.step = "writeframes"
    /\ HasHeader(before)
    /\ HeaderOf(before).datalen = 2
    /\ Len(PayloadOf(before)) = 2
    /\ HeaderOf(before).nchannels = 1
    /\ fs[fname] = Holding(<<>>)

====
